---- MODULE Spec2Model ----
(***************************************************************************)
(* Model of facebook_api_wrapper.py: the two rate-limit decorators, the    *)
(* per-id collection loops (profiles_info, posts, profiles_posts,          *)
(* posts_comments), the record normalizers and the enrichment passes.      *)
(*                                                                         *)
(* The remote Graph API is the environment: every attempt of a wrapped     *)
(* call ends in a nondeterministically chosen outcome (a payload, the      *)
(* rate-limit error code 4, or any other error).  created_time strings are *)
(* taken to carry the +0000 offset the Graph API sends, so a timestamp is  *)
(* an integer instant plus a flag telling whether it is timezone-aware.    *)
(***************************************************************************)
EXTENDS Integers, Sequences, FiniteSets, TLC

(* ------------------------------ bounds -------------------------------- *)
MaxIds == 2          \* length of the ids list of a top-level call
MaxN == 3            \* largest count cap n passed by the caller
MaxTime == 2         \* created_time values are 0..MaxTime
MaxSince == 1        \* since and until are drawn from 1..MaxSince
MaxPage == 2         \* records on one page
MaxLike == 1         \* like_count of a comment is 0..MaxLike
MaxRecords == 3      \* records the remote serves during one run
MaxCount == 3        \* largest count field of a directly normalized post

(* ------------------------- program constants -------------------------- *)
max_wait == 7200
wait == 900
max_tries == max_wait \div wait
DefaultN == 100000

(* --------------------------- python values ---------------------------- *)
None == <<>>
Some(x) == <<x>>

\* datetime: t is the wall-clock instant, tz tells whether tzinfo is set
DateTime(t, tz) == [t |-> t, tz |-> tz]

\* the value [] that both decorators return on failure
EmptyList == [kind |-> "list", has_data |-> FALSE, data |-> <<>>, next |-> FALSE]

\* a response dict; has_data: the key "data" is present, next: paging.next is
Dict(has_data, data, next) ==
    [kind |-> "dict", has_data |-> has_data, data |-> data, next |-> next]

\* a raw post as the remote sends it; pg and ix record the page and the place
\* on the page it came from (pg = 0: fetched as a single object)
RawPost(id, ct, comments, likes, like_count, reactions, shares, pg, ix) ==
    [kind |-> "post", id |-> id, created_time |-> ct,
     comments |-> comments, likes |-> likes, like_count |-> like_count,
     reactions |-> reactions, shares |-> shares, pg |-> pg, ix |-> ix]

RawComment(id, like_count, pg, ix) ==
    [kind |-> "comment", id |-> id, like_count |-> like_count,
     pg |-> pg, ix |-> ix]

\* ids the remote gives the records it serves under entity i
RecordId(i, pg, ix) == i * 100 + pg * 10 + ix

(* --------------------------- pure helpers ----------------------------- *)
RECURSIVE SumSeq(_)
SumSeq(s) == IF s = <<>> THEN 0 ELSE Head(s) + SumSeq(Tail(s))

RECURSIVE SelectRows(_, _)
SelectRows(s, keep) ==
    IF s = <<>> THEN <<>>
    ELSE IF keep[1] THEN <<Head(s)>> \o SelectRows(Tail(s), Tail(keep))
         ELSE SelectRows(Tail(s), Tail(keep))

\* list(series.unique()): first occurrences, in order
RECURSIVE Unique(_)
Unique(s) ==
    IF s = <<>> THEN <<>>
    ELSE LET r == Unique(SubSeq(s, 1, Len(s) - 1))
             x == s[Len(s)]
         IN IF \E k \in 1..Len(r) : r[k] = x THEN r ELSE Append(r, x)

add_timezone(x) == IF x.tz THEN x ELSE DateTime(x.t, TRUE)

\* pd.to_datetime of a "...+0000" string: an aware timestamp
to_datetime(ct) == DateTime(ct, TRUE)

\* a returns_data that forgets the comparison with []
returns_data_any_dict(connection) ==
    connection.kind = "dict" /\ connection.has_data

returns_data(connection) ==
    IF connection.kind = "dict" /\ connection.has_data
    THEN connection.data # <<>>
    ELSE FALSE

connection_data(connection) == connection.data

connection_date(element) == element.created_time

(* ---------------------------- normalizers ----------------------------- *)
\* post["likes"]["summary"]["total_count"], else post["like_count"], else None
likes_count_of(post) ==
    IF post.likes # None THEN post.likes
    ELSE IF post.like_count # None THEN post.like_count
    ELSE None

\* post.get("shares", {}).get("count", 0)
shares_count_of(post) == IF post.shares # None THEN post.shares ELSE Some(0)

\* an interactions that counts the likes as well
interactions_with_likes(cc, lc, rc, sc) == SumSeq(cc \o lc \o rc \o sc)

\* interactions_cols = comments_count, reactions_count, shares_count;
\* the columns that are None are left out of the sum
interactions_of(comments_count, likes_count, reactions_count, shares_count) ==
    SumSeq(comments_count \o reactions_count \o shares_count)

\* from_id and from_name are copied from the "from" sub-object and take no
\* part in any other field; they are left out of the row
post_with_additional_collumns(post, i) ==
    IF post.kind = "list" THEN EmptyList
    ELSE LET comments_count == post.comments
             likes_count == likes_count_of(post)
             reactions_count == post.reactions
             shares_count == shares_count_of(post)
         IN [kind |-> "row",
             id |-> post.id,
             created_time |-> DateTime(to_datetime(post.created_time).t, FALSE),
             comments_count |-> comments_count,
             likes_count |-> likes_count,
             reactions_count |-> reactions_count,
             shares_count |-> shares_count,
             post_link |-> <<"https://facebook.com/", post.id>>,
             interactions |-> interactions_of(comments_count, likes_count,
                                              reactions_count, shares_count),
             api_call_id |-> i,
             pg |-> post.pg, ix |-> post.ix]

transform_posts(posts, i) ==
    [k \in 1..Len(posts) |-> post_with_additional_collumns(posts[k], i)]

comment_with_additional_collumns(comment, i) ==
    [kind |-> "crow", id |-> comment.id, like_count |-> comment.like_count,
     api_call_id |-> i, pg |-> comment.pg, ix |-> comment.ix]

transform_comments(comments, i) ==
    [k \in 1..Len(comments) |-> comment_with_additional_collumns(comments[k], i)]

(* ------------------------------- state -------------------------------- *)
VARIABLES
    op,          \* the method the caller invoked
    args,        \* its arguments
    cur,         \* the method whose id loop is running
    loop_ids,    \* ids of that loop
    loop_n,      \* n of that loop
    idx,         \* position in loop_ids of the id in progress
    elements,    \* elements collected for the id in progress
    connection,  \* the page paginate_elements holds
    acc,         \* the list the loop appends to (elements / posts / comments)
    df,          \* the posts DataFrame an enrichment pass is working on
    pc,          \* "start", "call", "ret", "raise", "done", "fault"
    callee,      \* the wrapped function the decorator is running
    tries,       \* the decorator's tries counter
    retval,      \* what the decorator returned
    attempts,    \* calls of func made by the running decorator call
    sleeps,      \* time.sleep(wait) calls made by the running decorator call
    outcome,     \* how the remote answered the last attempt
    payload,     \* the last answer without an error
    result,      \* what the caller gets back
    fault,       \* the exception that ended the run, "none" otherwise
    saved,       \* save_df was called for the caller's DataFrame
    enriched,    \* enrichment passes that were entered
    served,      \* records the remote has served in this run
    spent        \* wrapped calls of this run that used up their tries

vars == <<op, args, cur, loop_ids, loop_n, idx, elements, connection, acc, df,
          pc, callee, tries, retval, attempts, sleeps, outcome, payload,
          result, fault, saved, enriched, served, spent>>

gov == <<callee, tries, retval, attempts, sleeps, outcome, payload>>

(* ------------------------------ inputs -------------------------------- *)
\* a call is rate limited up to MaxThrottled times in a row: more than the
\* wrappers ever try
MaxThrottled == 10

IdLists == {[k \in 1..len |-> k] : len \in 0..MaxIds}

Counts == {None, Some(1), Some(MaxCount)}

\* every shape of a post fetched as a single object
RawPosts(i) ==
    {RawPost(i, 1, c, l, lc, r, s, 0, 1) :
        c \in Counts, l \in Counts, lc \in Counts, r \in Counts, s \in Counts}

\* posts as they come on the pages of a profile's connection
PagePost(i, pg, ix, ct) ==
    RawPost(RecordId(i, pg, ix), ct, None, None, None, None, None, pg, ix)

PostPages(i, pg) ==
    UNION {{[ix \in 1..len |-> PagePost(i, pg, ix, cts[ix])] :
                cts \in [1..len -> 0..MaxTime]} : len \in 1..MaxPage}

CommentPages(i, pg) ==
    UNION {{[ix \in 1..len |-> RawComment(RecordId(i, pg, ix), lcs[ix], pg, ix)] :
                lcs \in [1..len -> 0..MaxLike]} : len \in 1..MaxPage}

Windows == {w \in (1..MaxSince) \X (1..MaxSince) : w[1] <= w[2]}

NoArgs == [ids |-> <<>>, n |-> 0, since |-> DateTime(0, FALSE),
           until |-> DateTime(0, FALSE), info |-> FALSE, comments |-> FALSE,
           posts |-> <<>>, throttled |-> 0, then |-> "Success"]

Inputs(o) ==
    CASE o = "profiles_info" ->
            {[NoArgs EXCEPT !.ids = l] : l \in IdLists}
      [] o = "posts" ->
            {[NoArgs EXCEPT !.ids = l, !.info = f, !.comments = c] :
                l \in IdLists, f \in BOOLEAN, c \in BOOLEAN}
      [] o = "profiles_posts" ->
            {[NoArgs EXCEPT !.ids = l, !.n = k,
                            !.since = DateTime(w[1], tz),
                            !.until = DateTime(w[2], tz),
                            !.info = f, !.comments = c] :
                l \in IdLists, k \in 1..MaxN, w \in Windows,
                tz \in BOOLEAN, f \in BOOLEAN, c \in BOOLEAN}
      [] o = "posts_comments" ->
            {[NoArgs EXCEPT !.ids = l, !.n = k] : l \in IdLists, k \in 1..MaxN}
      [] o = "transform_posts" ->
            {[NoArgs EXCEPT !.ids = <<1>>, !.posts = <<p>>] : p \in RawPosts(1)}
      [] o = "rate_limit" ->
            {[NoArgs EXCEPT !.ids = <<1>>, !.throttled = k, !.then = c] :
                k \in 0..MaxThrottled, c \in {"Success", "Fatal"}}

Ops == {"profiles_info", "posts", "profiles_posts", "posts_comments",
        "transform_posts", "rate_limit"}

Init ==
    /\ op \in Ops
    /\ args \in Inputs(op)
    /\ cur = op
    /\ loop_ids = args.ids
    /\ loop_n = args.n
    /\ idx = 0
    /\ elements = <<>>
    /\ connection = EmptyList
    /\ acc = <<>>
    /\ df = <<>>
    /\ pc = "start"
    /\ callee = "none"
    /\ tries = 0
    /\ retval = EmptyList
    /\ attempts = 0
    /\ sleeps = 0
    /\ outcome = "none"
    /\ payload = EmptyList
    /\ result = <<>>
    /\ fault = "none"
    /\ saved = FALSE
    /\ enriched = {}
    /\ served = 0
    /\ spent = 0

(* ---------------------------- the remote ------------------------------ *)
SdkCallees == {"get_profile_info", "get_post",
               "get_profile_posts_initial_call",
               "get_post_comments_initial_call"}

\* the id the loop is working on
i == loop_ids[idx]

Profile(id) == [kind |-> "profile", id |-> id]

\* pages of at most the records the remote has left to serve
Pages(c, id, pg) ==
    {d \in (IF c = "profiles_posts" THEN PostPages(id, pg)
                                    ELSE CommentPages(id, pg)) :
        served + Len(d) <= MaxRecords}

\* responses without an error: a page with or without a next cursor, an
\* empty page, a response without the "data" key
Connections(c, id, pg) ==
    {Dict(TRUE, d, nx) : d \in Pages(c, id, pg), nx \in BOOLEAN}
        \cup {Dict(TRUE, <<>>, FALSE), Dict(FALSE, <<>>, FALSE)}

\* what func can return to rate_limit_sdk.wrapper
SdkPayloads ==
    CASE callee = "get_profile_info" -> {Profile(i)}
      [] callee = "get_post" ->
            {RawPost(i, 1, None, l, None, None, None, 0, 1) :
                l \in {None, Some(MaxCount)}}
      [] callee = "get_profile_posts_initial_call" ->
            Connections("profiles_posts", i, 1)
      [] callee = "get_post_comments_initial_call" ->
            Connections("posts_comments", i, 1)

\* what requests.get(connection["paging"]["next"]).json() can be when it has
\* no "error" key
NextPayloads == Connections(cur, i, elements[Len(elements)].pg + 1)

Records(answer) == IF answer.kind = "dict" THEN Len(answer.data) ELSE 0

(* ------------------------- the two decorators ------------------------- *)
\* while tries <= max_tries
sdk_may_try(t) == t <= max_tries

\* a loop condition that stops one try earlier
requests_may_try_strict(t) == t < max_tries

requests_may_try(t) == t <= max_tries

\* rate_limit_sdk.wrapper as a function of the outcomes func has: answers
\* is the sequence of outcomes, answer what func returns when it succeeds
RECURSIVE rate_limit_sdk(_, _, _, _, _)
rate_limit_sdk(answers, answer, t, made, slept) ==
    IF sdk_may_try(t)
    THEN IF Head(answers) = "Success"
         THEN [value |-> answer, attempts |-> made + 1, sleeps |-> slept]
         ELSE IF Head(answers) = "Throttled"
         THEN rate_limit_sdk(Tail(answers), answer, t + 1, made + 1, slept + 1)
         ELSE [value |-> EmptyList, attempts |-> made + 1, sleeps |-> slept]
    ELSE [value |-> EmptyList, attempts |-> made, sleeps |-> slept]

\* rate_limit_requests.wrapper, likewise
RECURSIVE rate_limit_requests(_, _, _, _, _)
rate_limit_requests(answers, answer, t, made, slept) ==
    IF requests_may_try(t)
    THEN IF Head(answers) # "Success"
         THEN IF Head(answers) = "Throttled"
              THEN rate_limit_requests(Tail(answers), answer, t + 1, made + 1,
                                       slept + 1)
              ELSE [value |-> EmptyList, attempts |-> made + 1, sleeps |-> slept]
         ELSE [value |-> answer, attempts |-> made + 1, sleeps |-> slept]
    ELSE [value |-> EmptyList, attempts |-> made, sleeps |-> slept]

\* a wrapper whose tries counter outlives the call
BeginCall_keeps_tries(c) ==
    /\ pc' = "call"
    /\ callee' = c
    /\ tries' = tries
    /\ attempts' = 0
    /\ sleeps' = 0
    /\ retval' = EmptyList
    /\ outcome' = "none"
    /\ payload' = EmptyList

\* max_tries and tries are locals of wrapper, set anew at each call
BeginCall(c) ==
    /\ pc' = "call"
    /\ callee' = c
    /\ tries' = 0
    /\ attempts' = 0
    /\ sleeps' = 0
    /\ retval' = EmptyList
    /\ outcome' = "none"
    /\ payload' = EmptyList

Frame == <<op, args, cur, loop_ids, loop_n, idx, elements, connection, acc,
           df, result, fault, saved, enriched>>

\* return func(*args, **kwargs)
rate_limit_sdk_return ==
    /\ pc = "call" /\ callee \in SdkCallees /\ sdk_may_try(tries)
    /\ \E answer \in SdkPayloads :
          /\ payload' = answer
          /\ retval' = answer
          /\ served' = served + Records(answer)
    /\ outcome' = "Success"
    /\ attempts' = attempts + 1
    /\ pc' = "ret"
    /\ UNCHANGED <<Frame, callee, tries, sleeps, spent>>

\* a wrapper that retries a rate limited call without sleeping
rate_limit_sdk_throttled_no_sleep ==
    /\ pc = "call" /\ callee \in SdkCallees /\ sdk_may_try(tries)
    /\ attempts' = attempts + 1
    /\ tries' = tries + 1
    /\ pc' = IF sdk_may_try(tries + 1) THEN "call" ELSE "ret"
    /\ retval' = EmptyList
    /\ outcome' = "Throttled"
    /\ spent' = IF pc' = "call" THEN spent ELSE spent + 1
    /\ UNCHANGED <<Frame, callee, served, payload, sleeps>>

\* a wrapper that lets the rate limit error out once the tries are used up
rate_limit_sdk_throttled_raises ==
    /\ pc = "call" /\ callee \in SdkCallees /\ sdk_may_try(tries)
    /\ attempts' = attempts + 1
    /\ sleeps' = sleeps + 1
    /\ tries' = tries + 1
    /\ pc' = IF sdk_may_try(tries + 1) THEN "call" ELSE "fault"
    /\ fault' = IF sdk_may_try(tries + 1) THEN fault ELSE "GraphAPIError"
    /\ retval' = EmptyList
    /\ outcome' = "Throttled"
    /\ spent' = IF pc' = "call" THEN spent ELSE spent + 1
    /\ UNCHANGED <<op, args, cur, loop_ids, loop_n, idx, elements, connection,
                   acc, df, result, saved, enriched, callee, served, payload>>

\* except GraphAPIError with e.code == 4: sleep, tries += 1; when the loop
\* condition fails the wrapper logs and returns []
rate_limit_sdk_throttled ==
    /\ pc = "call" /\ callee \in SdkCallees /\ sdk_may_try(tries)
    /\ attempts' = attempts + 1
    /\ sleeps' = sleeps + 1
    /\ tries' = tries + 1
    /\ pc' = IF sdk_may_try(tries + 1) THEN "call" ELSE "ret"
    /\ retval' = EmptyList
    /\ outcome' = "Throttled"
    /\ spent' = IF pc' = "call" THEN spent ELSE spent + 1
    /\ UNCHANGED <<Frame, callee, served, payload>>

\* except GraphAPIError with any other code: return []
rate_limit_sdk_fatal ==
    /\ pc = "call" /\ callee \in SdkCallees /\ sdk_may_try(tries)
    /\ attempts' = attempts + 1
    /\ retval' = EmptyList
    /\ outcome' = "Fatal"
    /\ pc' = "ret"
    /\ UNCHANGED <<Frame, callee, tries, sleeps, served, spent, payload>>

\* connection["paging"]["next"] raises KeyError inside func: it leaves the
\* wrapper before any request is made
rate_limit_requests_keyerror ==
    /\ pc = "call" /\ callee = "get_next_connection" /\ requests_may_try(tries)
    /\ ~connection.next
    /\ pc' = "raise"
    /\ UNCHANGED <<Frame, gov, served, spent>>

\* "error" not in connection: return connection
rate_limit_requests_return ==
    /\ pc = "call" /\ callee = "get_next_connection" /\ requests_may_try(tries)
    /\ connection.next
    /\ \E answer \in NextPayloads :
          /\ payload' = answer
          /\ retval' = answer
          /\ served' = served + Records(answer)
    /\ outcome' = "Success"
    /\ attempts' = attempts + 1
    /\ pc' = "ret"
    /\ UNCHANGED <<Frame, callee, tries, sleeps, spent>>

\* connection["error"]["code"] == 4
rate_limit_requests_throttled ==
    /\ pc = "call" /\ callee = "get_next_connection" /\ requests_may_try(tries)
    /\ connection.next
    /\ attempts' = attempts + 1
    /\ sleeps' = sleeps + 1
    /\ tries' = tries + 1
    /\ pc' = IF requests_may_try(tries + 1) THEN "call" ELSE "ret"
    /\ retval' = EmptyList
    /\ outcome' = "Throttled"
    /\ spent' = IF pc' = "call" THEN spent ELSE spent + 1
    /\ UNCHANGED <<Frame, callee, served, payload>>

\* a wrapper that treats every error as a rate limit and tries again
rate_limit_requests_fatal_retries ==
    /\ pc = "call" /\ callee = "get_next_connection" /\ requests_may_try(tries)
    /\ connection.next
    /\ attempts' = attempts + 1
    /\ tries' = tries + 1
    /\ pc' = IF requests_may_try(tries + 1) THEN "call" ELSE "ret"
    /\ retval' = EmptyList
    /\ outcome' = "Fatal"
    /\ UNCHANGED <<Frame, callee, sleeps, served, spent, payload>>

\* any other error code: return []
rate_limit_requests_fatal ==
    /\ pc = "call" /\ callee = "get_next_connection" /\ requests_may_try(tries)
    /\ connection.next
    /\ attempts' = attempts + 1
    /\ retval' = EmptyList
    /\ outcome' = "Fatal"
    /\ pc' = "ret"
    /\ UNCHANGED <<Frame, callee, tries, sleeps, served, spent, payload>>

(* --------------------------- ends of a run ---------------------------- *)
Return(value, was_saved) ==
    /\ pc' = "done"
    /\ result' = value
    /\ saved' = was_saved
    /\ fault' = "none"

Raise(exception) ==
    /\ pc' = "fault"
    /\ fault' = exception
    /\ UNCHANGED <<result, saved>>

(* ---------------------------- profiles_info --------------------------- *)
\* df = pd.DataFrame(elements); self.save_df(df, path); return df
profiles_info_end(elems) ==
    /\ Return(elems, TRUE)
    /\ acc' = elems
    /\ UNCHANGED <<gov, idx>>

profiles_info_start ==
    /\ pc = "start" /\ cur = "profiles_info"
    /\ IF loop_ids = <<>>
       THEN profiles_info_end(<<>>)
       ELSE /\ idx' = 1
            /\ BeginCall("get_profile_info")
            /\ UNCHANGED <<acc, result, fault, saved>>
    /\ UNCHANGED <<op, args, cur, loop_ids, loop_n, elements, connection, df,
                   enriched, served, spent>>

\* element["api_call_id"] = i is an item assignment: on the [] the decorator
\* returns after a failed call it raises TypeError
profiles_info_ret ==
    /\ pc = "ret" /\ cur = "profiles_info"
    /\ IF retval.kind = "list"
       THEN /\ Raise("TypeError")
            /\ UNCHANGED <<gov, idx, acc>>
       ELSE LET element == [kind |-> "profile", id |-> retval.id,
                            api_call_id |-> i]
                elems == Append(acc, element)
            IN IF idx < Len(loop_ids)
               THEN /\ idx' = idx + 1
                    /\ acc' = elems
                    /\ BeginCall("get_profile_info")
                    /\ UNCHANGED <<result, fault, saved>>
               ELSE profiles_info_end(elems)
    /\ UNCHANGED <<op, args, cur, loop_ids, loop_n, elements, connection, df,
                   enriched, served, spent>>

(* -------------------------------- posts ------------------------------- *)
\* "return posts" comes before the DataFrame is built: add_info,
\* add_comments and save_df below it are never reached
posts_end(posts) ==
    /\ Return(posts, FALSE)
    /\ acc' = posts
    /\ UNCHANGED <<gov, idx>>

posts_start ==
    /\ pc = "start" /\ cur = "posts"
    /\ IF loop_ids = <<>>
       THEN posts_end(<<>>)
       ELSE /\ idx' = 1
            /\ BeginCall("get_post")
            /\ UNCHANGED <<acc, result, fault, saved>>
    /\ UNCHANGED <<op, args, cur, loop_ids, loop_n, elements, connection, df,
                   enriched, served, spent>>

\* element is never None: posts.extend(self.transform_posts([element], i))
posts_ret ==
    /\ pc = "ret" /\ cur = "posts"
    /\ LET element == retval
           posts == acc \o transform_posts(<<element>>, i)
       IN IF idx < Len(loop_ids)
          THEN /\ idx' = idx + 1
               /\ acc' = posts
               /\ BeginCall("get_post")
               /\ UNCHANGED <<result, fault, saved>>
          ELSE posts_end(posts)
    /\ UNCHANGED <<op, args, cur, loop_ids, loop_n, elements, connection, df,
                   enriched, served, spent>>

(* --------------------- transform_posts, called alone ------------------ *)
transform_posts_call ==
    /\ pc = "start" /\ cur = "transform_posts"
    /\ Return(transform_posts(args.posts, args.ids[1]), FALSE)
    /\ UNCHANGED <<op, args, cur, loop_ids, loop_n, idx, elements, connection,
                   acc, df, gov, enriched, served, spent>>

(* ------------------ the two wrappers, on the same answers ------------- *)
\* the outcomes of func: rate limited args.throttled times, then args.then
Answers(k, then) ==
    [a \in 1..(k + 1) |-> IF a <= k THEN "Throttled" ELSE then]

rate_limit_call ==
    /\ pc = "start" /\ cur = "rate_limit"
    /\ LET answers == Answers(args.throttled, args.then)
       IN Return(<<rate_limit_sdk(answers, Profile(1), 0, 0, 0),
                   rate_limit_requests(answers, Profile(1), 0, 0, 0)>>, FALSE)
    /\ UNCHANGED <<op, args, cur, loop_ids, loop_n, idx, elements, connection,
                   acc, df, gov, enriched, served, spent>>

(* ---------------------------- posts_comments -------------------------- *)
\* comments_df.groupby("api_call_id").like_count.sum(), looked up for one id;
\* an id without a group maps to NaN, which fillna turns into 0
comments_reactions_of(comments_df, id) ==
    LET hit == [k \in 1..Len(comments_df) |-> comments_df[k].api_call_id = id]
        group == SelectRows(comments_df, hit)
    IN SumSeq([k \in 1..Len(group) |-> group[k].like_count])

\* df["comments_reactions"] = df.id.map(...); fillna(0)
with_comments_reactions(posts_df, comments_df) ==
    [k \in 1..Len(posts_df) |->
        posts_df[k] @@
        [comments_reactions |-> comments_reactions_of(comments_df, posts_df[k].id)]]

\* the end of posts_comments, and of the add_comments and profiles_posts
\* calls it returns into when add_comments made the call
posts_comments_end(comments) ==
    /\ acc' = comments
    /\ IF op = "posts_comments"
       THEN Return(comments, TRUE)
       ELSE IF comments = <<>>
            \* groupby("api_call_id") on a DataFrame without columns
            THEN Raise("KeyError")
            ELSE Return(with_comments_reactions(df, comments), TRUE)
    /\ UNCHANGED <<gov, idx, elements, connection>>

\* the next id of posts_comments, or its end
posts_comments_next_id(comments) ==
    IF idx < Len(loop_ids)
    THEN /\ idx' = idx + 1
         /\ acc' = comments
         /\ elements' = <<>>
         /\ BeginCall("get_post_comments_initial_call")
         /\ UNCHANGED <<connection, result, fault, saved>>
    ELSE posts_comments_end(comments)

\* paginate_elements returned elements itself: elements.extend(elements)
posts_comments_extend(elems) == elems \o elems

\* paginate_elements left by return elements
posts_comments_id_done(elems) ==
    posts_comments_next_id(
        acc \o transform_comments(posts_comments_extend(elems), i))

\* a while loop of paginate_elements without the test on n
posts_comments_paginate_uncapped(elems, conn) ==
    /\ elements' = elems
    /\ connection' = conn
    /\ BeginCall("get_next_connection")
    /\ UNCHANGED <<idx, acc, result, fault, saved>>

\* the head of the while loop of paginate_elements; when the condition
\* fails the function ends without a return and elements.extend(None)
\* raises TypeError
posts_comments_paginate(elems, conn) ==
    IF Len(elems) < loop_n
    THEN /\ elements' = elems
         /\ connection' = conn
         /\ BeginCall("get_next_connection")
         /\ UNCHANGED <<idx, acc, result, fault, saved>>
    ELSE /\ Raise("TypeError")
         /\ elements' = elems
         /\ connection' = conn
         /\ UNCHANGED <<gov, idx, acc>>

posts_comments_start ==
    /\ pc = "start" /\ cur = "posts_comments"
    /\ IF loop_ids = <<>>
       THEN posts_comments_end(<<>>)
       ELSE /\ idx' = 1
            /\ BeginCall("get_post_comments_initial_call")
            /\ UNCHANGED <<acc, elements, connection, result, fault, saved>>
    /\ UNCHANGED <<op, args, cur, loop_ids, loop_n, df, enriched, served, spent>>

posts_comments_ret ==
    /\ pc = "ret" /\ cur = "posts_comments"
    /\ IF callee = "get_post_comments_initial_call"
       THEN IF returns_data(retval)
            THEN posts_comments_paginate(connection_data(retval), retval)
            ELSE posts_comments_next_id(acc)
       ELSE IF returns_data(retval)
            THEN posts_comments_paginate(
                     elements \o connection_data(retval), retval)
            ELSE posts_comments_id_done(elements)
    /\ UNCHANGED <<op, args, cur, loop_ids, loop_n, df, enriched, served, spent>>

\* except KeyError: return elements
posts_comments_keyerror ==
    /\ pc = "raise" /\ cur = "posts_comments"
    /\ posts_comments_id_done(elements)
    /\ UNCHANGED <<op, args, cur, loop_ids, loop_n, df, enriched, served, spent>>

(* ---------------------------- profiles_posts -------------------------- *)
since_tz == add_timezone(args.since)

\* comparing a tz-naive with a tz-aware timestamp raises TypeError
comparable(a, b) == a.tz = b.tz

\* a time range pass that forgets the upper end
in_time_range_lower_only(row, since, until) ==
    row.created_time.t >= since.t

\* df.loc[(df.created_time >= since) & (df.created_time <= until)]
in_time_range(row, since, until) ==
    row.created_time.t >= since.t /\ row.created_time.t <= until.t

time_range(posts_df, since, until) ==
    SelectRows(posts_df,
               [k \in 1..Len(posts_df) |-> in_time_range(posts_df[k], since, until)])

\* a while condition that goes on at created_time = since
profiles_posts_continue_at_since(elems, n) ==
    /\ Len(elems) < n
    /\ to_datetime(connection_date(elems[Len(elems)])).t >= since_tz.t

\* the while condition of paginate_elements
profiles_posts_continue(elems, n) ==
    /\ Len(elems) < n
    /\ to_datetime(connection_date(elems[Len(elems)])).t > since_tz.t

\* after the id loop: the time range pass, add_info, add_comments, save_df
profiles_posts_end(posts) ==
    LET filters == Len(posts) > 0
        type_error == filters /\ ~comparable(posts[1].created_time, args.since)
        frame == IF filters THEN time_range(posts, args.since, args.until)
                 ELSE posts
        info_runs == args.info /\ ~type_error
        \* add_info reads self.post_from_col, which no class defines
        info_fails == info_runs /\ Len(frame) > 0
        comments_runs == args.comments /\ ~type_error /\ ~info_fails
        posts_ids == Unique([k \in 1..Len(frame) |-> frame[k].id])
        stays == <<gov, cur, loop_ids, loop_n, idx, elements>>
    IN \* posts_comments starts with its own comments = []
       /\ acc' = IF comments_runs /\ posts_ids # <<>> THEN <<>> ELSE posts
       /\ df' = frame
       /\ enriched' = (IF info_runs THEN {"info"} ELSE {})
                          \cup (IF comments_runs THEN {"comments"} ELSE {})
       /\ IF type_error
          THEN Raise("TypeError") /\ UNCHANGED stays
          ELSE IF info_fails
          THEN Raise("AttributeError") /\ UNCHANGED stays
          ELSE IF comments_runs /\ posts = <<>>
          \* add_comments reads df.id of a DataFrame without columns
          THEN Raise("AttributeError") /\ UNCHANGED stays
          ELSE IF comments_runs /\ posts_ids = <<>>
          \* posts_comments([]) returns a DataFrame without columns
          THEN Raise("KeyError") /\ UNCHANGED stays
          ELSE IF comments_runs
          \* comments_df = self.posts_comments(posts_ids)
          THEN /\ cur' = "posts_comments"
               /\ loop_ids' = posts_ids
               /\ loop_n' = DefaultN
               /\ idx' = 1
               /\ elements' = <<>>
               /\ BeginCall("get_post_comments_initial_call")
               /\ UNCHANGED <<result, fault, saved>>
          ELSE Return(frame, TRUE) /\ UNCHANGED stays
       /\ UNCHANGED connection

\* the next id of profiles_posts, or its end
profiles_posts_next_id(posts) ==
    IF idx < Len(loop_ids)
    THEN /\ idx' = idx + 1
         /\ acc' = posts
         /\ elements' = <<>>
         /\ BeginCall("get_profile_posts_initial_call")
         /\ UNCHANGED <<cur, loop_ids, loop_n, connection, df, enriched,
                        result, fault, saved>>
    ELSE profiles_posts_end(posts)

\* a collector that puts the rows of the id before the rows it has
profiles_posts_id_done_prepends(elems) ==
    profiles_posts_next_id(transform_posts(elems, i) \o acc)

\* a collector that throws the elements of the id away
profiles_posts_id_done_drops(elems) == profiles_posts_next_id(acc)

\* posts.extend(self.transform_posts(elements, i))
profiles_posts_id_done(elems) ==
    profiles_posts_next_id(acc \o transform_posts(elems, i))

\* the head of the while loop of paginate_elements
profiles_posts_paginate(elems, conn) ==
    IF elems = <<>> /\ Len(elems) < loop_n
    \* elements[-1] of an empty list
    THEN /\ Raise("IndexError")
         /\ elements' = elems
         /\ connection' = conn
         /\ UNCHANGED <<gov, cur, loop_ids, loop_n, idx, acc, df, enriched>>
    ELSE IF profiles_posts_continue(elems, loop_n)
    THEN /\ elements' = elems
         /\ connection' = conn
         /\ BeginCall("get_next_connection")
         /\ UNCHANGED <<cur, loop_ids, loop_n, idx, acc, df, enriched,
                        result, fault, saved>>
    ELSE profiles_posts_id_done(elems)

profiles_posts_start ==
    /\ pc = "start" /\ cur = "profiles_posts"
    /\ IF loop_ids = <<>>
       THEN profiles_posts_end(<<>>)
       ELSE /\ idx' = 1
            /\ BeginCall("get_profile_posts_initial_call")
            /\ UNCHANGED <<cur, loop_ids, loop_n, acc, elements, connection,
                           df, enriched, result, fault, saved>>
    /\ UNCHANGED <<op, args, served, spent>>

profiles_posts_ret ==
    /\ pc = "ret" /\ cur = "profiles_posts"
    /\ IF callee = "get_profile_posts_initial_call"
       THEN IF returns_data(retval)
            THEN profiles_posts_paginate(connection_data(retval), retval)
            ELSE profiles_posts_next_id(acc)
       ELSE IF returns_data(retval)
            THEN profiles_posts_paginate(
                     elements \o connection_data(retval), retval)
            ELSE profiles_posts_id_done(elements)
    /\ UNCHANGED <<op, args, served, spent>>

\* except KeyError: return elements
profiles_posts_keyerror ==
    /\ pc = "raise" /\ cur = "profiles_posts"
    /\ profiles_posts_id_done(elements)
    /\ UNCHANGED <<op, args, served, spent>>

(* --------------------------- specification ---------------------------- *)
Next ==
    \/ rate_limit_sdk_return
    \/ rate_limit_sdk_throttled
    \/ rate_limit_sdk_fatal
    \/ rate_limit_requests_keyerror
    \/ rate_limit_requests_return
    \/ rate_limit_requests_throttled
    \/ rate_limit_requests_fatal
    \/ profiles_info_start
    \/ profiles_info_ret
    \/ posts_start
    \/ posts_ret
    \/ transform_posts_call
    \/ rate_limit_call
    \/ posts_comments_start
    \/ posts_comments_ret
    \/ posts_comments_keyerror
    \/ profiles_posts_start
    \/ profiles_posts_ret
    \/ profiles_posts_keyerror

Spec == Init /\ [][Next]_vars

(* ------------------------------ claims -------------------------------- *)
InitialCallees == {"get_profile_posts_initial_call",
                   "get_post_comments_initial_call"}

Collections == {"profiles_posts", "posts_comments"}

\* C1: one wrapped call, in either decorator, never makes more than
\* max_tries = max_wait / wait = 8 attempts, whatever the remote answers.
C1_AttemptsWithinMaxTries == attempts <= max_tries

\* C2: profiles_posts and posts_comments return at most n rows.
C2_RowsWithinCap ==
    (pc = "done" /\ op \in Collections) => Len(result) <= args.n

\* C3: when the wrapped call for an id of a multi-id operation comes back
\* empty (Fatal, or Throttled until the budget ran out), the operation does
\* not fault and, if a later id exists, goes on to fetch it.
C3_FailedIdDoesNotAbort ==
    [][(pc = "ret" /\ retval.kind = "list" /\ cur = op)
          => /\ pc' # "fault"
             /\ idx < Len(loop_ids) => (idx' = idx + 1 /\ pc' = "call")]_vars

\* C4: every row profiles_posts returns has since <= created_time <= until,
\* and every collected row within these bounds, the two ends included, is
\* returned.
C4_RowsInTimeRange ==
    (pc = "done" /\ op = "profiles_posts") =>
        /\ \A k \in 1..Len(result) :
              /\ args.since.t <= result[k].created_time.t
              /\ result[k].created_time.t <= args.until.t
        /\ ~args.comments =>
              \A k \in 1..Len(acc) :
                 (/\ args.since.t <= acc[k].created_time.t
                  /\ acc[k].created_time.t <= args.until.t)
                    => \E j \in 1..Len(result) : result[j].id = acc[k].id

\* a run of profiles_posts that collected rows outside the range and
\* returned the others
C4_Witness ==
    /\ pc = "done" /\ op = "profiles_posts" /\ ~args.comments
    /\ Len(result) > 0
    /\ \E k \in 1..Len(acc) : acc[k].created_time.t > args.until.t
    /\ \E k \in 1..Len(acc) : acc[k].created_time.t < args.since.t

\* C5: in the rows a collection returns, the rows of one id that came from
\* page k precede those that came from page k + 1.
C5_PagesInOrder ==
    (pc = "done" /\ op \in Collections) =>
        \A j \in 1..Len(result) : \A k \in 1..Len(result) :
            (j < k /\ result[j].api_call_id = result[k].api_call_id)
                => result[j].pg <= result[k].pg

\* the empty result of a failed call, or a response with no record in it
NoRecords(value) ==
    value.kind = "list" \/ ~value.has_data \/ value.data = <<>>

\* C6: when the first connection of an id is the empty result of a failed
\* call or has no data, the collector adds no row for the id, fetches no
\* next page, and goes on to the next id if there is one; a first attempt
\* that was not rate limited is not tried again.
C6_EmptyFirstPage ==
    /\ []((pc = "ret" /\ callee \in InitialCallees /\ sleeps = 0)
              => attempts = 1)
    /\ [][(pc = "ret" /\ callee \in InitialCallees /\ NoRecords(retval))
              => /\ cur' = cur => acc' = acc
                 /\ cur' # cur => (acc' = <<>> /\ Len(df') <= Len(acc))
                 /\ elements = <<>> /\ elements' = <<>>
                 /\ pc' # "fault" \/ idx = Len(loop_ids)
                 /\ callee' # "get_next_connection"
                 /\ idx < Len(loop_ids)
                       => /\ idx' = idx + 1
                          /\ pc' = "call"
                          /\ callee' = callee]_vars

\* the second id is being fetched after the first one gave an empty page
C6_Witness ==
    /\ cur \in Collections /\ idx = 2 /\ pc = "call"
    /\ callee \in InitialCallees /\ acc = <<>>

\* C7: interactions is the sum of the count fields that are present; a
\* post with nothing but likes.summary.total_count = 3 gets likes_count = 3
\* and interactions = 3.
C7_InteractionsSumAllCounts ==
    (pc = "done" /\ op = "transform_posts") =>
        result[1].interactions =
            SumSeq(result[1].comments_count \o result[1].likes_count
                   \o result[1].reactions_count \o result[1].shares_count)

LikesOnly(post) ==
    /\ post.likes = Some(MaxCount) /\ post.comments = None
    /\ post.reactions = None /\ post.shares = None

\* C7 as amended: interactions is the sum of those of comments_count,
\* reactions_count and shares_count that are present (likes_count is not
\* counted); the post with nothing but the likes summary gets that
\* likes_count and interactions = 0.
C7_InteractionsSumNoLikes ==
    (pc = "done" /\ op = "transform_posts") =>
        /\ result[1].interactions =
              SumSeq(result[1].comments_count \o result[1].reactions_count
                     \o result[1].shares_count)
        /\ result[1].likes_count = likes_count_of(args.posts[1])
        /\ LikesOnly(args.posts[1]) =>
              /\ result[1].likes_count = Some(MaxCount)
              /\ result[1].interactions = 0

C7_Witness ==
    /\ pc = "done" /\ op = "transform_posts" /\ LikesOnly(args.posts[1])
    /\ result[1].likes_count = Some(MaxCount)

\* C8: a wrapped call that is rate limited k times and then answered has
\* slept exactly k times, returns exactly the answer, and makes no further
\* attempt.
C8_SleepsThenPayload ==
    /\ []((pc = "ret" /\ outcome = "Success")
              => /\ sleeps = attempts - 1
                 /\ tries = sleeps
                 /\ retval = payload)
    /\ [][(pc = "ret" /\ outcome = "Success")
              => (attempts' = attempts \/ (pc' = "call" /\ attempts' = 0))]_vars

\* rate limited once, answered on the second attempt
C8_Witness ==
    /\ pc = "ret" /\ outcome = "Success" /\ attempts = 2 /\ sleeps = 1
    /\ retval.kind = "dict" /\ retval.data # <<>>

\* C9: posts runs add_info when info is set and add_comments when comments
\* is set, and saves the result, before it returns.
C9_PostsEnriches ==
    (pc = "done" /\ op = "posts" /\ Len(result) > 0) =>
        /\ args.info => ("info" \in enriched /\ saved)
        /\ args.comments => ("comments" \in enriched /\ saved)

\* the comments the remote served for one post, each once
ReceivedLikes(id) ==
    LET ids == {acc[k].id : k \in {j \in 1..Len(acc) : acc[j].api_call_id = id}}
        like_of(c) == (CHOOSE k \in 1..Len(acc) : acc[k].id = c)
        RECURSIVE Total(_)
        Total(cs) == IF cs = {} THEN 0
                     ELSE LET c == CHOOSE x \in cs : TRUE
                          IN acc[like_of(c)].like_count + Total(cs \ {c})
    IN Total(ids)

\* C10: add_comments sets comments_reactions of a post to the sum of
\* like_count over the comments the remote returned for it, each counted
\* once, and to 0 when there are none.
C10_CommentsReactions ==
    (pc = "done" /\ op = "profiles_posts" /\ "comments" \in enriched) =>
        \A k \in 1..Len(result) :
            result[k].comments_reactions = ReceivedLikes(result[k].id)

\* C11: the time one wrapped call sleeps, sleeps * wait seconds, never
\* exceeds max_wait = 7200 seconds.
C11_SleepWithinMaxWait == sleeps * wait <= max_wait

\* C12: on an error other than the rate limit the wrapper returns [] at
\* once: the attempt is not followed by a sleep or by another attempt,
\* whether it is the first attempt or comes after rate limited ones.
C12_FatalReturnsAtOnce ==
    /\ [][(pc = "call" /\ outcome' = "Fatal")
              => /\ pc' = "ret"
                 /\ retval' = EmptyList
                 /\ attempts' = attempts + 1
                 /\ sleeps' = sleeps]_vars
    /\ [][(pc = "ret" /\ outcome = "Fatal")
              => (attempts' = attempts \/ (pc' = "call" /\ attempts' = 0))]_vars

\* a Fatal answer after two rate limited attempts
C12_Witness ==
    /\ pc = "ret" /\ outcome = "Fatal" /\ attempts = 3 /\ sleeps = 2
    /\ retval = EmptyList

\* C13: a wrapped call that is rate limited on every attempt ends: the
\* attempts are bounded, and when the tries are used up the wrapper returns
\* [] as a value and raises nothing.
C13_ExhaustedReturnsEmpty ==
    /\ [](attempts <= max_tries + 1 /\ (pc = "call" => tries <= max_tries))
    /\ [][(pc = "call" /\ outcome' = "Throttled" /\ pc' # "call")
              => /\ pc' = "ret"
                 /\ retval' = EmptyList
                 /\ fault' = "none"]_vars

\* the wrapper has returned [] after the last rate limited attempt
C13_Witness ==
    /\ pc = "ret" /\ outcome = "Throttled" /\ tries > max_tries
    /\ retval = EmptyList /\ fault = "none"

InRange(x) == args.since.t <= x.created_time /\ x.created_time <= args.until.t

\* C14: when a next-page fetch of profiles_posts comes back as [] or without
\* data, no further page is fetched for the id and every element
\* accumulated for it becomes a row of the rows the time range pass gets.
C14_PartialPagesKept ==
    [][(/\ pc = "ret" /\ cur = "profiles_posts"
        /\ callee = "get_next_connection" /\ NoRecords(retval))
          => /\ ~(pc' = "call" /\ callee' = "get_next_connection")
             /\ cur' = cur =>
                   /\ Len(acc') = Len(acc) + Len(elements)
                   /\ \A k \in 1..Len(elements) :
                         /\ acc'[Len(acc) + k].id = elements[k].id
                         /\ acc'[Len(acc) + k].api_call_id = loop_ids[idx]
             /\ cur' # cur =>
                   \A k \in 1..Len(elements) :
                      InRange(elements[k]) =>
                         \E j \in 1..Len(df') : df'[j].id = elements[k].id]_vars

\* profiles_posts returned the rows of an id whose next page failed
C14_Witness ==
    /\ pc = "done" /\ op = "profiles_posts" /\ cur = "profiles_posts"
    /\ callee = "get_next_connection" /\ outcome = "Fatal"
    /\ Len(acc) > 0 /\ Len(result) > 0

\* C15: profiles_posts asks for a next page only while fewer than n
\* elements are accumulated and the last one is strictly newer than since;
\* the cursor is looked at after both.
C15_FetchOnlyWhileOpen ==
    (/\ pc \in {"call", "raise"} /\ cur = "profiles_posts"
     /\ callee = "get_next_connection")
        => /\ Len(elements) < loop_n
           /\ elements[Len(elements)].created_time > args.since.t

\* a second next page is being asked for
C15_Witness ==
    /\ pc = "call" /\ cur = "profiles_posts"
    /\ callee = "get_next_connection" /\ Len(elements) = 2
    /\ elements[2].pg = 2

\* C16: every wrapped call starts with its own tries counter at 0, whatever
\* the earlier calls of the run used, and counts only its own attempts.
C16_FreshBudgetPerCall ==
    /\ [](pc = "call" => (tries = attempts /\ tries = sleeps))
    /\ [][(pc # "call" /\ pc' = "call")
              => (tries' = 0 /\ attempts' = 0 /\ sleeps' = 0)]_vars

\* a second call used all its tries after an earlier one had done so
C16_Witness ==
    /\ spent = 2 /\ pc = "ret" /\ attempts = max_tries + 1

\* the outcomes of the wrapped call that has just returned
AnswersSoFar ==
    [a \in 1..attempts |-> IF a < attempts THEN "Throttled" ELSE outcome]

\* C17: the two wrappers follow one policy: on the same outcomes of func
\* they make the same attempts and sleeps and return the same value, and
\* each wrapped call of a run ends as both of them say.
C17_SameRetryPolicy ==
    /\ (pc = "done" /\ op = "rate_limit") => result[1] = result[2]
    /\ (pc = "ret" /\ op # "rate_limit") =>
          LET here == [value |-> retval, attempts |-> attempts, sleeps |-> sleeps]
          IN /\ rate_limit_sdk(AnswersSoFar, payload, 0, 0, 0) = here
             /\ rate_limit_requests(AnswersSoFar, payload, 0, 0, 0) = here

\* both wrappers, rate limited throughout, gave up after the same attempts
C17_Witness ==
    /\ pc = "done" /\ op = "rate_limit" /\ args.throttled > max_tries
    /\ result[1].attempts = max_tries + 1 /\ result[2].attempts = max_tries + 1
    /\ result[1].value = EmptyList

\* the id under which the remote served the record a row was made from
OriginOf(row) == IF op = "posts" THEN row.id ELSE row.id \div 100

\* C18: every row a collection operation returns carries, as api_call_id,
\* the id its fetch was issued under; an id whose fetch ended with a fatal
\* error gives no row without one.
C18_RowsCarryOriginId ==
    (pc = "done" /\ op \in {"posts", "profiles_posts", "posts_comments"}) =>
        \A k \in 1..Len(result) :
            /\ result[k].kind # "list"
            /\ result[k].api_call_id = OriginOf(result[k])
            /\ \E j \in 1..Len(args.ids) : args.ids[j] = result[k].api_call_id

Terminated == pc \in {"done", "fault"}

\* a < b in the lexicographic order of tuples of naturals
LexLess(a, b) ==
    \E k \in 1..Len(a) : a[k] < b[k] /\ \A j \in 1..(k - 1) : a[j] = b[j]

\* what a run has left to do: the methods still to run, the ids still to
\* start, the elements the id in progress may still take before n, the
\* tries the wrapped call in progress has left
Rank ==
    <<IF Terminated THEN 0 ELSE IF cur = op THEN 2 ELSE 1,
      Len(loop_ids) - idx,
      IF Len(elements) < loop_n THEN loop_n - Len(elements) ELSE 0,
      IF pc = "call" THEN max_tries + 1 - tries ELSE 0>>

\* C19: every run ends, whatever the remote answers: each step (an attempt
\* of a wrapped call, the handling of what it returned) lowers a rank that
\* cannot fall forever, so only finitely many fetches are made, and a run
\* that has not returned or raised always has a next step.
C19_RunTerminates ==
    /\ [][LexLess(Rank', Rank)]_vars
    /\ [](\A k \in 1..Len(Rank) : Rank[k] >= 0)
    /\ [](~Terminated => ENABLED Next)

\* a run that ended after one id was served pages with a next cursor up to
\* its n and a call was rate limited on every attempt
C19_Witness ==
    /\ Terminated /\ op = "profiles_posts" /\ cur = "profiles_posts"
    /\ spent >= 1 /\ Len(acc) >= 2 /\ Len(acc) = args.n
    /\ connection.kind = "dict" /\ connection.next

\* the position of an id in the list the loop runs over
Pos(id) == CHOOSE j \in 1..Len(loop_ids) : loop_ids[j] = id

\* C20: profiles_posts and posts_comments work through the ids one after
\* the other: the position of the id in progress never goes back, the
\* records held for it were all served under it, the rows accumulated
\* belong to ids already begun (to earlier ids while a call for the id in
\* progress is running) and stand in the order of the ids.
C20_SequentialPerId ==
    /\ [][cur' = cur => idx' >= idx]_vars
    /\ []((cur \in Collections /\ pc # "start") =>
            /\ \A k \in 1..Len(elements) : elements[k].id \div 100 = i
            /\ \A k \in 1..Len(acc) :
                  /\ \E j \in 1..idx : loop_ids[j] = acc[k].api_call_id
                  /\ pc = "call" => Pos(acc[k].api_call_id) < idx
            /\ \A k \in 1..Len(acc) : \A l \in (k + 1)..Len(acc) :
                  Pos(acc[k].api_call_id) <= Pos(acc[l].api_call_id))

\* profiles_posts returned after collecting rows under both ids
C20_Witness ==
    /\ pc = "done" /\ op = "profiles_posts" /\ cur = "profiles_posts"
    /\ Len(acc) >= 2
    /\ acc[1].api_call_id = 1 /\ acc[Len(acc)].api_call_id = 2

\* C21: when posts_comments returns, it has one row for each comment
\* record the remote served, the first page and the later pages alike: its
\* rows are as many as the records and no record has two rows.
C21_OneRowPerComment ==
    (pc = "done" /\ op = "posts_comments") =>
        /\ Len(result) = served
        /\ \A k \in 1..Len(result) : \A l \in (k + 1)..Len(result) :
              result[k].id # result[l].id

\* C22: posts_comments does not raise when the elements of an id have
\* reached n, whether the first page alone or the later pages filled them.
C22_CapReturnsResult ==
    (cur = "posts_comments" /\ Len(elements) >= loop_n) =>
        (pc # "fault" /\ fault = "none")
====
